---------------------------- MODULE Spec2Model ----------------------------
(***************************************************************************)
(* Model of the bootloader merge step of the legacy builder:               *)
(*   MergeSketchWithBootloader.Run and merge (package builder).            *)
(*                                                                         *)
(* merge works on gohex.Memory values (github.com/marcinbor85/gohex, the   *)
(* import at line 370).  The operators NewMemory, isOverlap, AddBinary,    *)
(* ParseIntelHex, GetDataSegments, DumpIntelHex and ToBinary model what    *)
(* that library does at the places merge calls it; strconv.Atoi, os.Open,  *)
(* os.Create and the go-paths-helper Path methods are modelled the same    *)
(* way, by their behaviour at the call.                                    *)
(*                                                                         *)
(* uint32 values are kept modulo UintMod.  TLC's integers are 32 bit       *)
(* signed, so the width is 30 bits instead of 32; every uint32 operation   *)
(* of the code is reduced with U32.                                        *)
(***************************************************************************)
EXTENDS Integers, Sequences, FiniteSets, TLC

\* ------------------------------------------------------------------ bounds
\* Longest payload of one data record of an input file.
MaxLen == 2
\* Most data records in one input file.
MaxRecs == 2
\* Most lines of the dump a failed write leaves unwritten.
MaxLostLines == 1

\* --------------------------------------------------------------- constants
\* Number of values of the model's uint32 (2^30 here for 2^32).
UintMod == 2^30
\* math.MaxUint32
MaxUint32 == UintMod - 1
\* maximumBinSize := 16000000
DefaultMaxBinSize == 16000000
\* mem_merge.DumpIntelHex(mergeFile, 16)
LineLength == 16
\* mem_merge.ToBinary(..., 0xFF)
Padding == 255

\* uint32(x): conversion to, and arithmetic in, unsigned 32 bit.
U32(x) == x % UintMod

Min(a, b) == IF a < b THEN a ELSE b

\* ------------------------------------------------------------------- paths
\* A path is a sequence of components; a component (a file name) is a
\* sequence of tokens whose concatenation is the name, so that
\* name + ".hex" is name \o <<".hex">>.
ExtTokens == {".hex", ".bin", ".ino"}

\* Path.Join(elems...)
Join(p, elems) == p \o elems
\* Path.Base()
Base(p) == IF p = <<>> THEN <<>> ELSE p[Len(p)]
\* Path.Parent()
Parent(p) == IF p = <<>> THEN <<>> ELSE SubSeq(p, 1, Len(p) - 1)
\* Path.Ext(): the suffix of the last component from its final dot.
Ext(p) ==
    LET b == Base(p)
    IN  IF b # <<>> /\ b[Len(b)] \in ExtTokens THEN b[Len(b)] ELSE ""

\* ctx.BuildPath, constants.FOLDER_SKETCH, the platform's bootloaders folder
BuildPath == << <<"build">> >>
FolderSketch == <<"sketch">>
BootloadersDir == << <<"platform">>, <<"bootloaders">> >>
\* sketch.MainFile.Name.Base()
SketchFileName == <<"Blink", ".ino">>

\* The directories that exist while the step runs.
Dirs == {BuildPath, Join(BuildPath, <<FolderSketch>>), BootloadersDir,
         Parent(BootloadersDir), <<>>}


\* ------------------------------------------------------ gohex.Memory model
\* A DataSegment is [Address, Data]; a Memory is its dataSegments slice.

\* gohex.NewMemory()
NewMemory == <<>>

\* Memory.GetDataSegments(): a copy of the segments, in the slice's order.
GetDataSegments(m) == m

\* DataSegment.isOverlap(adr, size), in uint32 arithmetic.
isOverlap(seg, adr, size) ==
    \/ adr >= seg.Address /\ adr < U32(seg.Address + Len(seg.Data))
    \/ adr < seg.Address /\ U32(adr + size) > seg.Address

\* The slice without its element at index.
removeSegment(m, index) ==
    [k \in 1..(Len(m) - 1) |-> IF k < index THEN m[k] ELSE m[k + 1]]

\* The index an insertion sort by Address puts seg at.
sortPosition(m, seg) ==
    Cardinality({k \in 1..Len(m) : m[k].Address <= seg.Address}) + 1

\* sort.Sort(sortByAddress(m.dataSegments))
RECURSIVE sortByAddress(_)
sortByAddress(m) ==
    IF m = <<>> THEN <<>>
    ELSE LET rest == sortByAddress(SubSeq(m, 1, Len(m) - 1))
             seg  == m[Len(m)]
             pos  == sortPosition(rest, seg)
         IN  SubSeq(rest, 1, pos - 1) \o <<seg>> \o SubSeq(rest, pos, Len(rest))

\* The greatest index of a set of indices, 0 when it is empty: the value a
\* loop over the slice leaves in a variable it assigns on each hit.
LastIndex(hits) ==
    IF hits = {} THEN 0 ELSE CHOOSE k \in hits : \A j \in hits : j <= k

\* Memory.AddBinary(adr, bytes): [err, mem].  A segment that overlaps one
\* already present is refused ("data segments overlap") and the memory is
\* left as it was; otherwise the bytes are appended to the segment ending at
\* adr, prepended to the segment starting at adr+len, both, or added as a new
\* segment, and the slice is sorted by address.
AddBinary(m, adr, bytes) ==
    LET n == Len(bytes)
        before == LastIndex({k \in 1..Len(m) :
                                adr = U32(m[k].Address + Len(m[k].Data))})
        after  == LastIndex({k \in 1..Len(m) : U32(adr + n) = m[k].Address})
    IN  IF \E k \in 1..Len(m) : isOverlap(m[k], adr, n)
        THEN [err |-> TRUE, mem |-> m]
        ELSE [err |-> FALSE,
              mem |-> sortByAddress(
                IF before # 0 /\ after # 0
                THEN removeSegment(
                       [m EXCEPT ![before].Data =
                                    m[before].Data \o bytes \o m[after].Data],
                       after)
                ELSE IF before # 0
                THEN [m EXCEPT ![before].Data = m[before].Data \o bytes]
                ELSE IF after # 0
                THEN [m EXCEPT ![after] =
                         [Address |-> adr, Data |-> bytes \o m[after].Data]]
                ELSE Append(m, [Address |-> adr, Data |-> bytes]))]

\* Memory.ParseIntelHex(reader): [err, mem].  A file is [valid, records];
\* valid says that every line passes the format's checks (checksum, record
\* type, length, end-of-file record).  Each data record [adr, data], adr
\* being the record's address under the extended address in force, is added
\* with AddBinary, whose refusal fails the parse.
RECURSIVE parseRecords(_, _)
parseRecords(m, records) ==
    IF records = <<>> THEN [err |-> FALSE, mem |-> m]
    ELSE LET r == AddBinary(m, records[1].adr, records[1].data)
         IN  IF r.err THEN [err |-> TRUE, mem |-> m]
             ELSE parseRecords(r.mem, Tail(records))

ParseIntelHex(file) ==
    IF ~file.valid THEN [err |-> TRUE, mem |-> NewMemory]
    ELSE parseRecords(NewMemory, file.records)

\* Memory.ToBinary(address, size, padding): for each of size positions the
\* byte of the first segment holding the running address, else padding; the
\* running address is a uint32.
ToBinaryByte(m, address, padding) ==
    LET Holds(s) == address >= s.Address
                    /\ address < U32(s.Address + Len(s.Data))
        hits == {k \in 1..Len(m) : Holds(m[k])}
    IN  IF hits = {} THEN padding
        ELSE LET k == CHOOSE h \in hits : \A j \in hits : h <= j
             IN  m[k].Data[address - m[k].Address + 1]

ToBinary(m, address, size, padding) ==
    [i \in 1..size |-> ToBinaryByte(m, U32(address + i - 1), padding)]

\* Memory.DumpIntelHex(writer, lineLength): the lines written for one
\* segment, given the extended address of the previous line: an extended
\* address line when the upper 16 bits change, then data lines of at most
\* lineLength bytes.
RECURSIVE dataLines(_, _, _)
dataLines(adr, data, lineLength) ==
    IF data = <<>> THEN <<>>
    ELSE LET n == Min(Len(data), lineLength)
         IN  <<[type |-> "data", adr |-> adr, data |-> SubSeq(data, 1, n)]>>
             \o dataLines(U32(adr + n), SubSeq(data, n + 1, Len(data)),
                          lineLength)

dumpDataSegment(seg, extendedAddress, lineLength) ==
    (IF seg.Data # <<>> /\ seg.Address \div 65536 # extendedAddress
     THEN <<[type |-> "ext", adr |-> seg.Address \div 65536, data |-> <<>>]>>
     ELSE <<>>)
    \o dataLines(seg.Address, seg.Data, lineLength)

RECURSIVE dumpSegments(_, _, _)
dumpSegments(m, extendedAddress, lineLength) ==
    IF m = <<>> THEN <<>>
    ELSE dumpDataSegment(m[1], extendedAddress, lineLength)
         \o dumpSegments(Tail(m),
                         IF m[1].Data # <<>> THEN m[1].Address \div 65536
                         ELSE extendedAddress,
                         lineLength)

\* All the lines of a complete dump: the segments, then the end-of-file line.
DumpIntelHex(m, lineLength) ==
    dumpSegments(m, 0, lineLength)
    \o <<[type |-> "eof", adr |-> 0, data |-> <<>>]>>

\* ----------------------------------------------------------- strconv.Atoi
Digits == <<"0", "1", "2", "3", "4", "5", "6", "7", "8", "9">>
IsDigit(c) == \E d \in 1..10 : Digits[d] = c
DigitVal(c) == (CHOOSE d \in 1..10 : Digits[d] = c) - 1

RECURSIVE parseDigits(_, _)
parseDigits(s, acc) ==
    IF s = <<>> THEN acc
    ELSE parseDigits(Tail(s), acc * 10 + DigitVal(s[1]))

\* strconv.Atoi(s): [val, err].  An optional sign, then one or more decimal
\* digits; anything else is a syntax error, whose value is 0.
Atoi(s) ==
    LET signed == s # <<>> /\ s[1] \in {"+", "-"}
        body   == IF signed THEN Tail(s) ELSE s
    IN  IF body = <<>> \/ \E k \in 1..Len(body) : ~IsDigit(body[k])
        THEN [val |-> 0, err |-> TRUE]
        ELSE [val |-> IF signed /\ s[1] = "-" THEN 0 - parseDigits(body, 0)
                      ELSE parseDigits(body, 0),
              err |-> FALSE]

\* ------------------------------------------------------------------ inputs
\* The decimal text of a natural number, as a platform file declares it.
RECURSIVE Itoa(_)
Itoa(n) ==
    IF n < 10 THEN <<Digits[n + 1]>>
    ELSE Itoa(n \div 10) \o <<Digits[(n % 10) + 1]>>

\* Declared upload sizes: a small one, and one whose double does not fit a
\* uint32.
UploadSizes == {2, UintMod \div 2}
\* Values of upload.maximum_size that are no integer.
BadUploadStrings == {<<"3", "2", "k">>}
UploadStrings == {Itoa(n) : n \in UploadSizes} \cup BadUploadStrings

\* Bootloader file names a platform may declare.
BootNames == {<<"optiboot", ".hex">>, <<"boot", ".bin">>}
NoBlinkNames == {<<"noblink", ".hex">>}

\* constants.BUILD_PROPERTIES_BOOTLOADER_NOBLINK, ..._BOOTLOADER_FILE,
\* constants.PROPERTY_UPLOAD_MAX_SIZE
KeyNoBlink == "bootloader.noblink"
KeyFile == "bootloader.file"
KeyUploadMaxSize == "upload.maximum_size"

\* The build properties a run may start with: each of the three keys absent
\* or present with one of its values.
Optional(S) == {<<>>} \cup {<<x>> : x \in S}
Properties(nb, f, u) ==
    [k \in (IF nb # <<>> THEN {KeyNoBlink} ELSE {})
           \cup (IF f # <<>> THEN {KeyFile} ELSE {})
           \cup (IF u # <<>> THEN {KeyUploadMaxSize} ELSE {}) |->
        IF k = KeyNoBlink THEN nb[1] ELSE IF k = KeyFile THEN f[1] ELSE u[1]]
PropertySets ==
    {Properties(nb, f, u) : nb \in Optional(NoBlinkNames),
                            f \in Optional(BootNames),
                            u \in Optional(UploadStrings)}

\* buildProperties.ContainsKey / GetOk / Get
ContainsKey(props, k) == k \in DOMAIN props
Get(props, k) == IF k \in DOMAIN props THEN props[k] ELSE <<>>

\* Addresses at which the records of the two input files start: the sketch
\* low, the bootloader on it, beside it and at the top of the address space.
\* No record reaches past the last address.
BootAddrs == {0, 3, MaxUint32 - MaxLen}
SketchAddrs == {0, 2}
\* The bytes of the two images differ, and vary with the address.
BootTag == 176
SketchTag == 80
DataAt(tag, adr, n) == [i \in 1..n |-> tag + (U32(adr + i - 1) % 8)]

\* The record sequences of an input file: at most MaxRecs data records of at
\* most MaxLen bytes, in ascending address order (ParseIntelHex keeps the
\* segments sorted, so the order of the lines does not change its result).
RecordSeqs(addrs, tag) ==
    LET choices == {f \in [addrs -> (-1)..MaxLen] :
                       Cardinality({a \in addrs : f[a] >= 0}) <= MaxRecs}
        seqOf(f) ==
            LET used == {a \in addrs : f[a] >= 0}
                nth(k) == CHOOSE a \in used :
                            Cardinality({y \in used : y < a}) = k - 1
            IN  [k \in 1..Cardinality(used) |->
                    [adr |-> nth(k), data |-> DataAt(tag, nth(k), f[nth(k)])]]
    IN  {seqOf(f) : f \in choices}

\* The contents an input file may have.
HexFiles(addrs, tag) ==
    {[valid |-> TRUE, records |-> r] : r \in RecordSeqs(addrs, tag)}
    \cup {[valid |-> FALSE, records |-> <<>>]}

\* ------------------------------------------------------------------- state
VARIABLES
    pc,               \* the statement Run / merge is at
    props,            \* ctx.BuildProperties
    fs,               \* the regular files that exist: path -> content
    fs0,              \* fs when Run was called
    builtSketchPath, bootloaderPath, mergedSketchPath, mergedSketchPathBin,
    maximumBinSize,   \* the int Run passes to merge
    open,             \* the file handles merge holds open
    mem_boot, mem_sketch, mem_merge,
    idx,              \* position of the running range loop
    initial_address, last_address,
    inserted,         \* the segments whose AddBinary returned no error
    refused,          \* the segments whose AddBinary returned an error
    dump,             \* what DumpIntelHex did: "none", "complete", "failed"
    bytes,            \* the slice handed to WriteFile, NoBytes before that
    mergeErr,         \* the error merge returns
    warnings,         \* what Run printed at LOG_LEVEL_WARN
    runErr            \* the error Run returns, "running" before it returns

vars == <<pc, props, fs, fs0, builtSketchPath, bootloaderPath,
          mergedSketchPath, mergedSketchPathBin, maximumBinSize, open,
          mem_boot, mem_sketch, mem_merge, idx, initial_address,
          last_address, inserted, refused, dump, bytes, mergeErr, warnings,
          runErr>>

NoPath == <<>>
NoError == [kind |-> "nil", path |-> NoPath]
NoBytes == <<-1>>
\* An input file on disk; its lines are read when it is parsed.
InputFile == [kind |-> "input", lines |-> <<>>]

\* Path.Exist() / Path.NotExist()
Exist(files, p) == p \in DOMAIN files \/ p \in Dirs

\* The file system with file p holding content.
WithFile(files, p, content) ==
    [q \in DOMAIN files \cup {p} |-> IF q = p THEN content ELSE files[q]]

\* Where the compiled sketch and the merged image may be.
SketchInBuildPath == Join(BuildPath, <<SketchFileName \o <<".hex">> >>)
SketchInSubfolder ==
    Join(BuildPath, <<FolderSketch, SketchFileName \o <<".hex">> >>)
MergedName == SketchFileName \o <<".with_bootloader", ".hex">>

\* The files a run may find on disk: the compiled sketch in the build path,
\* in its sketch subfolder or nowhere, the declared bootloaders present or
\* not, and possibly a merged image left by an earlier build.
InitialFiles ==
    LET sketches == {{}, {SketchInBuildPath}, {SketchInSubfolder}}
        boots == {{}, {Join(BootloadersDir, <<n>>) :
                         n \in BootNames \cup NoBlinkNames}}
        stale == {{}, {Join(BuildPath, <<MergedName>>)}}
    IN  {[p \in s \cup b \cup o |->
            IF p \in o THEN [kind |-> "hex", lines |-> <<>>]
            ELSE InputFile] : s \in sketches, b \in boots, o \in stale}

Init ==
    /\ pc = "Run"
    /\ props \in PropertySets
    /\ fs \in InitialFiles
    /\ fs0 = fs
    /\ builtSketchPath = NoPath
    /\ bootloaderPath = NoPath
    /\ mergedSketchPath = NoPath
    /\ mergedSketchPathBin = NoPath
    /\ maximumBinSize = 0
    /\ open = {}
    /\ mem_boot = NewMemory
    /\ mem_sketch = NewMemory
    /\ mem_merge = NewMemory
    /\ idx = 0
    /\ initial_address = 0
    /\ last_address = 0
    /\ inserted = {}
    /\ refused = {}
    /\ dump = "none"
    /\ bytes = NoBytes
    /\ mergeErr = NoError
    /\ warnings = <<>>
    /\ runErr = "running"

\* --------------------------------------- MergeSketchWithBootloader.Run
\* The compiled sketch: in the build path, else in its sketch subfolder,
\* else NoPath.
BuiltSketchPath(files) ==
    IF Exist(files, SketchInBuildPath) THEN SketchInBuildPath
    ELSE IF Exist(files, SketchInSubfolder) THEN SketchInSubfolder
    ELSE NoPath

\* The bootloader's file name: bootloader.noblink when present, else
\* bootloader.file (the values hold no {placeholder} to expand).
BootloaderName(p) ==
    IF ContainsKey(p, KeyNoBlink) THEN p[KeyNoBlink] ELSE Get(p, KeyFile)

\* Mutant of MaximumBinSize: a size that does not convert leaves the default.
MaximumBinSizeChecked(p) ==
    IF ContainsKey(p, KeyUploadMaxSize) /\ ~Atoi(p[KeyUploadMaxSize]).err
    THEN Atoi(p[KeyUploadMaxSize]).val * 2
    ELSE DefaultMaxBinSize

\* Mutant of MaximumBinSize: the declared size is not doubled.
MaximumBinSizeNotDoubled(p) ==
    IF ContainsKey(p, KeyUploadMaxSize)
    THEN Atoi(p[KeyUploadMaxSize]).val
    ELSE DefaultMaxBinSize

\* The size budget Run passes to merge.
MaximumBinSize(p) ==
    IF ContainsKey(p, KeyUploadMaxSize)
    THEN Atoi(p[KeyUploadMaxSize]).val * 2
    ELSE DefaultMaxBinSize

\* Run returns nil without calling merge.
RunReturnsEarly(w) ==
    /\ pc' = "done"
    /\ runErr' = "nil"
    /\ warnings' = w
    /\ UNCHANGED <<props, fs, fs0, builtSketchPath, bootloaderPath,
                   mergedSketchPath, mergedSketchPathBin, maximumBinSize,
                   open, mem_boot, mem_sketch, mem_merge, idx,
                   initial_address, last_address, inserted, refused, dump,
                   bytes, mergeErr>>

\* Run up to its call of merge.
RunSetup ==
    /\ pc = "Run"
    /\ LET built == BuiltSketchPath(fs)
           boot  == Join(BootloadersDir, <<BootloaderName(props)>>)
       IN  IF ~ContainsKey(props, KeyNoBlink) /\ ~ContainsKey(props, KeyFile)
           THEN RunReturnsEarly(warnings)
           ELSE IF built = NoPath
           THEN RunReturnsEarly(warnings)
           ELSE IF ~Exist(fs, boot)
           THEN RunReturnsEarly(
                  Append(warnings, [msg |-> "bootloader file missing",
                                    path |-> boot]))
           ELSE /\ pc' = "merge"
                /\ builtSketchPath' = built
                /\ bootloaderPath' = boot
                /\ mergedSketchPath' = Join(Parent(built), <<MergedName>>)
                /\ maximumBinSize' = MaximumBinSize(props)
                /\ UNCHANGED <<props, fs, fs0, mergedSketchPathBin, open,
                               mem_boot, mem_sketch, mem_merge, idx,
                               initial_address, last_address, inserted,
                               refused, dump, bytes, mergeErr, warnings,
                               runErr>>

\* Mutant of RunResult: the error of merge is returned.
RunResultPropagates(err) == IF err.kind = "nil" THEN "nil" ELSE "error"

\* What Run returns after merge returned err: return nil.
RunResult(err) == "nil"

\* Run after merge returned: the error is printed as a warning, and Run
\* returns nil.
RunReport ==
    /\ pc = "report"
    /\ warnings' = IF mergeErr # NoError
                   THEN Append(warnings, [msg |-> mergeErr.kind,
                                          path |-> mergeErr.path])
                   ELSE warnings
    /\ runErr' = RunResult(mergeErr)
    /\ pc' = "done"
    /\ UNCHANGED <<props, fs, fs0, builtSketchPath, bootloaderPath,
                   mergedSketchPath, mergedSketchPathBin, maximumBinSize,
                   open, mem_boot, mem_sketch, mem_merge, idx,
                   initial_address, last_address, inserted, refused, dump,
                   bytes, mergeErr>>

\* ------------------------------------------------------------------- merge
\* Mutant of MergeReturns: the Close calls are not deferred, so a return
\* leaves the handles as they are.
MergeReturnsLeavesOpen(err) ==
    /\ mergeErr' = err
    /\ open' = open
    /\ pc' = "report"

\* merge returns err: its deferred Close calls run, and Run goes on.
MergeReturns(err) ==
    /\ mergeErr' = err
    /\ open' = {}
    /\ pc' = "report"

\* The path merge opens for the bootloader.
BootloaderHexPath(p) ==
    IF Ext(p) = ".bin" THEN Join(p, <<Base(p), <<".hex">> >>) ELSE p

\* os.Open(bootloaderPath): fails when the path is no file, and may fail
\* for a file (permissions, I/O).
OpenBoot ==
    /\ pc = "merge"
    /\ bootloaderPath' = BootloaderHexPath(bootloaderPath)
    /\ \E ok \in BOOLEAN :
         IF ok /\ bootloaderPath' \in DOMAIN fs
         THEN /\ open' = open \cup {"bootFile"}
              /\ pc' = "parseBoot"
              /\ UNCHANGED mergeErr
         ELSE MergeReturns([kind |-> "open", path |-> bootloaderPath'])
    /\ UNCHANGED <<props, fs, fs0, builtSketchPath, mergedSketchPath,
                   mergedSketchPathBin, maximumBinSize, mem_boot, mem_sketch,
                   mem_merge, idx, initial_address, last_address, inserted,
                   refused, dump, bytes, warnings, runErr>>

\* errors.New(bootFile.Name() + " " + err.Error())
BootParseError == [kind |-> "parse", path |-> bootloaderPath]

\* Mutant of SketchParseError: the message names the bootloader file.
SketchParseErrorNamesBoot == [kind |-> "parse", path |-> bootloaderPath]

\* errors.New(buildFile.Name() + " " + err.Error())
SketchParseError == [kind |-> "parse", path |-> builtSketchPath]

\* mem_boot.ParseIntelHex(bootFile)
ParseBoot ==
    /\ pc = "parseBoot"
    /\ \E file \in HexFiles(BootAddrs, BootTag) :
         LET r == ParseIntelHex(file)
         IN  IF r.err
             THEN /\ MergeReturns(BootParseError)
                  /\ UNCHANGED mem_boot
             ELSE /\ mem_boot' = r.mem
                  /\ pc' = "openSketch"
                  /\ UNCHANGED <<mergeErr, open>>
    /\ UNCHANGED <<props, fs, fs0, builtSketchPath, bootloaderPath,
                   mergedSketchPath, mergedSketchPathBin, maximumBinSize,
                   mem_sketch, mem_merge, idx, initial_address, last_address,
                   inserted, refused, dump, bytes, warnings, runErr>>

\* os.Open(builtSketchPath)
OpenSketch ==
    /\ pc = "openSketch"
    /\ \E ok \in BOOLEAN :
         IF ok /\ builtSketchPath \in DOMAIN fs
         THEN /\ open' = open \cup {"buildFile"}
              /\ pc' = "parseSketch"
              /\ UNCHANGED mergeErr
         ELSE MergeReturns([kind |-> "open", path |-> builtSketchPath])
    /\ UNCHANGED <<props, fs, fs0, builtSketchPath, bootloaderPath,
                   mergedSketchPath, mergedSketchPathBin, maximumBinSize,
                   mem_boot, mem_sketch, mem_merge, idx, initial_address,
                   last_address, inserted, refused, dump, bytes, warnings,
                   runErr>>

\* mem_sketch.ParseIntelHex(buildFile), then the range loop's variables.
ParseSketch ==
    /\ pc = "parseSketch"
    /\ \E file \in HexFiles(SketchAddrs, SketchTag) :
         LET r == ParseIntelHex(file)
         IN  IF r.err
             THEN /\ MergeReturns(SketchParseError)
                  /\ UNCHANGED <<mem_sketch, mem_merge, idx, initial_address,
                                 last_address>>
             ELSE /\ mem_sketch' = r.mem
                  /\ mem_merge' = NewMemory
                  /\ initial_address' = MaxUint32
                  /\ last_address' = 0
                  /\ idx' = 1
                  /\ pc' = "bootLoop"
                  /\ UNCHANGED <<mergeErr, open>>
    /\ UNCHANGED <<props, fs, fs0, builtSketchPath, bootloaderPath,
                   mergedSketchPath, mergedSketchPathBin, maximumBinSize,
                   mem_boot, inserted, refused, dump, bytes, warnings,
                   runErr>>

\* Mutant of UpdateInitial: the comparison is turned around.
UpdateInitialGreater(initial, segment) ==
    IF segment.Address > initial THEN segment.Address ELSE initial

\* The running range after a segment was added: lines 469-474 and 482-487.
UpdateInitial(initial, segment) ==
    IF segment.Address < initial THEN segment.Address ELSE initial

\* Mutant of UpdateLast: compares the segment's base, not its end.
UpdateLastByBase(last, segment) ==
    IF segment.Address > last
    THEN U32(segment.Address + Len(segment.Data))
    ELSE last

UpdateLast(last, segment) ==
    IF U32(segment.Address + Len(segment.Data)) > last
    THEN U32(segment.Address + Len(segment.Data))
    ELSE last

\* Mutant of InsertSegment: the range is updated before the error is looked
\* at, so a refused segment still widens it.
InsertSegmentCountsRefused(from, segment) ==
    LET r == AddBinary(mem_merge, segment.Address, segment.Data)
    IN  /\ mem_merge' = r.mem
        /\ initial_address' = UpdateInitial(initial_address, segment)
        /\ last_address' = UpdateLast(last_address, segment)
        /\ IF r.err
           THEN /\ refused' = refused \cup {[from |-> from, seg |-> segment]}
                /\ UNCHANGED inserted
           ELSE /\ inserted' = inserted \cup {[from |-> from, seg |-> segment]}
                /\ UNCHANGED refused

\* One pass of a range loop's body over segment, read from image `from`.
InsertSegment(from, segment) ==
    LET r == AddBinary(mem_merge, segment.Address, segment.Data)
    IN  /\ mem_merge' = r.mem
        /\ IF r.err
           THEN /\ refused' = refused \cup {[from |-> from, seg |-> segment]}
                /\ UNCHANGED <<initial_address, last_address, inserted>>
           ELSE /\ initial_address' = UpdateInitial(initial_address, segment)
                /\ last_address' = UpdateLast(last_address, segment)
                /\ inserted' = inserted \cup {[from |-> from, seg |-> segment]}
                /\ UNCHANGED refused

\* for _, segment := range mem_boot.GetDataSegments()
BootLoop ==
    /\ pc = "bootLoop"
    /\ LET segments == GetDataSegments(mem_boot)
       IN  IF idx <= Len(segments)
           THEN /\ InsertSegment("boot", segments[idx])
                /\ idx' = idx + 1
                /\ UNCHANGED pc
           ELSE /\ pc' = "sketchLoop"
                /\ idx' = 1
                /\ UNCHANGED <<mem_merge, initial_address, last_address,
                               inserted, refused>>
    /\ UNCHANGED <<props, fs, fs0, builtSketchPath, bootloaderPath,
                   mergedSketchPath, mergedSketchPathBin, maximumBinSize,
                   open, mem_boot, mem_sketch, dump, bytes, mergeErr,
                   warnings, runErr>>

\* for _, segment := range mem_sketch.GetDataSegments()
SketchLoop ==
    /\ pc = "sketchLoop"
    /\ LET segments == GetDataSegments(mem_sketch)
       IN  IF idx <= Len(segments)
           THEN /\ InsertSegment("sketch", segments[idx])
                /\ idx' = idx + 1
                /\ UNCHANGED pc
           ELSE /\ pc' = "create"
                /\ idx' = 1
                /\ UNCHANGED <<mem_merge, initial_address, last_address,
                               inserted, refused>>
    /\ UNCHANGED <<props, fs, fs0, builtSketchPath, bootloaderPath,
                   mergedSketchPath, mergedSketchPathBin, maximumBinSize,
                   open, mem_boot, mem_sketch, dump, bytes, mergeErr,
                   warnings, runErr>>

\* os.Create(mergedSketchPath): the file exists and is empty, or the call
\* fails and merge returns.
CreateMergeFile ==
    /\ pc = "create"
    /\ \E ok \in BOOLEAN :
         IF ok
         THEN /\ fs' = WithFile(fs, mergedSketchPath,
                                [kind |-> "hex", lines |-> <<>>])
              /\ open' = open \cup {"mergeFile"}
              /\ pc' = "dump"
              /\ UNCHANGED mergeErr
         ELSE /\ MergeReturns([kind |-> "create", path |-> mergedSketchPath])
              /\ UNCHANGED fs
    /\ UNCHANGED <<props, fs0, builtSketchPath, bootloaderPath,
                   mergedSketchPath, mergedSketchPathBin, maximumBinSize,
                   mem_boot, mem_sketch, mem_merge, idx, initial_address,
                   last_address, inserted, refused, dump, bytes, warnings,
                   runErr>>

\* Mutant of DumpMergeFile: the size guard comes first, so an image over the
\* budget is not serialized.
DumpMergeFileAfterGuard ==
    /\ pc = "dump"
    /\ IF U32(last_address - initial_address) > U32(maximumBinSize)
       THEN UNCHANGED <<fs, dump>>
       ELSE LET lines == DumpIntelHex(mem_merge, LineLength)
            IN  \E k \in {j \in 0..Len(lines) :
                             j >= Len(lines) - MaxLostLines} :
                  /\ fs' = WithFile(fs, mergedSketchPath,
                                    [kind |-> "hex",
                                     lines |-> SubSeq(lines, 1, k)])
                  /\ dump' = IF k = Len(lines) THEN "complete" ELSE "failed"
    /\ pc' = "export"
    /\ UNCHANGED <<props, fs0, builtSketchPath, bootloaderPath,
                   mergedSketchPath, mergedSketchPathBin, maximumBinSize,
                   open, mem_boot, mem_sketch, mem_merge, idx,
                   initial_address, last_address, inserted, refused, bytes,
                   mergeErr, warnings, runErr>>

\* mem_merge.DumpIntelHex(mergeFile, 16): the lines are written in order
\* into the created file; a write may fail, which ends the dump after the
\* first k lines (the model lets it fail within the last MaxLostLines).
\* merge drops DumpIntelHex's error.
DumpMergeFile ==
    /\ pc = "dump"
    /\ LET lines == DumpIntelHex(mem_merge, LineLength)
       IN  \E k \in {j \in 0..Len(lines) : j >= Len(lines) - MaxLostLines} :
             /\ fs' = WithFile(fs, mergedSketchPath,
                               [kind |-> "hex", lines |-> SubSeq(lines, 1, k)])
             /\ dump' = IF k = Len(lines) THEN "complete" ELSE "failed"
    /\ pc' = "export"
    /\ UNCHANGED <<props, fs0, builtSketchPath, bootloaderPath,
                   mergedSketchPath, mergedSketchPathBin, maximumBinSize,
                   open, mem_boot, mem_sketch, mem_merge, idx,
                   initial_address, last_address, inserted, refused, bytes,
                   mergeErr, warnings, runErr>>

\* mergedSketchPath.Join(mergedSketchPath.Base(), ".bin")
BinPath(p) == Join(p, <<Base(p), <<".bin">> >>)

\* size := last_address - initial_address
OccupiedSize(initial, last) == U32(last - initial)

\* size > uint32(maximumBinSize)
ExceedsBudget(size, maximum) == size > U32(maximum)

\* Path.WriteFile(data) can only succeed in an existing directory.
CanWrite(p) == Parent(p) \in Dirs

\* Mutant of BinaryBytes: the gaps are filled with 0.
BinaryBytesZeroFill(m, initial, last) == ToBinary(m, initial, U32(last - initial), 0)

\* mem_merge.ToBinary(initial_address, last_address-initial_address, 0xFF)
BinaryBytes(m, initial, last) == ToBinary(m, initial, U32(last - initial), Padding)

\* Lines 498-506: the size guard, then ToBinary and WriteFile.
ExportBinary ==
    /\ pc = "export"
    /\ mergedSketchPathBin' = BinPath(mergedSketchPath)
    /\ IF ExceedsBudget(OccupiedSize(initial_address, last_address),
                        maximumBinSize)
       THEN /\ MergeReturns(NoError)
            /\ UNCHANGED <<fs, bytes>>
       ELSE /\ bytes' = BinaryBytes(mem_merge, initial_address, last_address)
            /\ \E ok \in BOOLEAN :
                 IF ok /\ CanWrite(mergedSketchPathBin')
                 THEN /\ fs' = WithFile(fs, mergedSketchPathBin',
                                        [kind |-> "bin", lines |-> bytes'])
                      /\ MergeReturns(NoError)
                 ELSE /\ MergeReturns([kind |-> "write",
                                       path |-> mergedSketchPathBin'])
                      /\ UNCHANGED fs
    /\ UNCHANGED <<props, fs0, builtSketchPath, bootloaderPath,
                   mergedSketchPath, maximumBinSize, mem_boot, mem_sketch,
                   mem_merge, idx, initial_address, last_address, inserted,
                   refused, dump, warnings, runErr>>

Next ==
    \/ RunSetup
    \/ OpenBoot
    \/ ParseBoot
    \/ OpenSketch
    \/ ParseSketch
    \/ BootLoop
    \/ SketchLoop
    \/ CreateMergeFile
    \/ DumpMergeFile
    \/ ExportBinary
    \/ RunReport

Spec == Init /\ [][Next]_vars

\* ------------------------------------------------------------------ claims
\* The addresses a segment holds, and its byte at one of them.
Cover(seg) == {U32(seg.Address + i - 1) : i \in 1..Len(seg.Data)}
SegByte(seg, a) ==
    seg.Data[CHOOSE i \in 1..Len(seg.Data) : U32(seg.Address + i - 1) = a]
\* The bytes an image holds at address a (none, or one per segment there).
ImageBytes(m, a) ==
    {SegByte(m[k], a) : k \in {j \in 1..Len(m) : a \in Cover(m[j])}}
Segments(m) == {m[k] : k \in 1..Len(m)}

\* Both range loops have run to their end.
LoopsDone == pc \in {"create", "dump", "export", "report", "done"}
                /\ idx = 1 /\ mergeErr.kind \notin {"open", "parse"}
\* merge reached its range loops in this run.
Merged == pc \in {"bootLoop", "sketchLoop"} \/ LoopsDone

\* C1: for every bootloader segment and program segment whose ranges
\* overlap, after the two loops the merged image's byte at every address of
\* the overlap is the program segment's byte.
C1_ProgramWinsOverlap ==
    LoopsDone =>
        \A b \in Segments(mem_boot), s \in Segments(mem_sketch) :
            \A a \in Cover(b) \cap Cover(s) :
                ImageBytes(mem_merge, a) = {SegByte(s, a)}

\* C2: after each insertion, once a segment has been inserted,
\* initial_address is the least base address of the inserted segments and
\* last_address the greatest base + length (a uint32, as the code adds them)
\* of the same segments.
C2_RangeCorrect ==
    (Merged /\ inserted # {}) =>
        /\ \E x \in inserted : initial_address = x.seg.Address
        /\ \A x \in inserted : initial_address <= x.seg.Address
        /\ \E x \in inserted :
             last_address = U32(x.seg.Address + Len(x.seg.Data))
        /\ \A x \in inserted :
             last_address >= U32(x.seg.Address + Len(x.seg.Data))

C2_Witness ==
    /\ pc = "create"
    /\ Cardinality(inserted) >= 3
    /\ refused # {}
    /\ \E x \in inserted : x.seg.Address > DefaultMaxBinSize
                           /\ last_address = x.seg.Address + Len(x.seg.Data)
    /\ \E x \in inserted : x.seg.Address # initial_address
                           /\ Len(x.seg.Data) > 0

\* C3: a step that refuses a segment leaves the merged image and the range
\* as they were and goes on with the loop without an error; at the end of
\* the loops every segment of both images was attempted and merge has
\* returned nothing.
C3_RefusalStep ==
    refused' # refused =>
        /\ mem_merge' = mem_merge
        /\ initial_address' = initial_address
        /\ last_address' = last_address
        /\ inserted' = inserted
        /\ idx' = idx + 1
        /\ pc' = pc
        /\ mergeErr' = NoError

C3_AllAttempted ==
    LoopsDone =>
        /\ inserted \cup refused =
             {[from |-> "boot", seg |-> g] : g \in Segments(mem_boot)}
             \cup {[from |-> "sketch", seg |-> g] : g \in Segments(mem_sketch)}
        /\ (pc = "create" => mergeErr = NoError)

C3_BestEffort == [][C3_RefusalStep]_vars /\ []C3_AllAttempted

C3_Witness ==
    /\ pc = "create"
    /\ mergeErr = NoError
    /\ \E r \in refused, x \in inserted :
         /\ r.from = "sketch" /\ x.from = "sketch"
         /\ r.seg.Address < x.seg.Address
         /\ r.seg.Data # <<>> /\ x.seg.Data # <<>>
         /\ ImageBytes(mem_merge, x.seg.Address) = {x.seg.Data[1]}

\* merge got as far as its size guard.
GuardReached == pc \in {"report", "done"} /\ dump # "none"
\* A merged binary is on disk.
BinaryWritten == \E p \in DOMAIN fs : fs[p].kind = "bin"

\* C4: when the occupied size is greater than the maximum size merge was
\* given, no binary is written and merge returns no error; when it is not
\* greater, the export is attempted.
C4_SizeGuard ==
    GuardReached =>
        LET size == OccupiedSize(initial_address, last_address)
        IN  /\ size > maximumBinSize =>
                 bytes = NoBytes /\ ~BinaryWritten /\ mergeErr = NoError
            /\ size <= maximumBinSize => bytes # NoBytes

\* C5: the exported binary has length last_address - initial_address, and
\* its byte at offset i is the merged image's byte at initial_address + i
\* where a segment covers that address, and 0xFF elsewhere.
C5_BinaryFill ==
    bytes # NoBytes =>
        /\ Len(bytes) = U32(last_address - initial_address)
        /\ \A i \in 1..Len(bytes) :
             LET at == ImageBytes(mem_merge, U32(initial_address + i - 1))
             IN  IF at # {} THEN at = {bytes[i]} ELSE bytes[i] = 255

C5_Witness ==
    /\ bytes # NoBytes
    /\ Len(bytes) >= 3
    /\ \E i \in 1..Len(bytes) :
         ImageBytes(mem_merge, U32(initial_address + i - 1)) = {}
    /\ \E i \in 2..Len(bytes) :
         ImageBytes(mem_merge, U32(initial_address + i - 1)) # {}

\* C6: when the serialization to HEX failed midway, the output path holds
\* no partial file once Run is over: it is absent, or as it was before.
C6_NoPartialFile ==
    (pc = "done" /\ dump = "failed") =>
        \/ mergedSketchPath \notin DOMAIN fs
        \/ /\ mergedSketchPath \in DOMAIN fs0
           /\ fs[mergedSketchPath] = fs0[mergedSketchPath]

\* C7: when opening or parsing an input fails, merge returns an error that
\* names the input that failed, and no file was created or changed; no file
\* is created or changed before both inputs are parsed.
C7_NamesInput ==
    /\ (pc \in {"merge", "parseBoot"} /\ pc' = "report") =>
           /\ mergeErr'.kind \in {"open", "parse"}
           /\ mergeErr'.path = bootloaderPath'
           /\ mergeErr'.path # builtSketchPath'
    /\ (pc \in {"openSketch", "parseSketch"} /\ pc' = "report") =>
           /\ mergeErr'.kind \in {"open", "parse"}
           /\ mergeErr'.path = builtSketchPath'
           /\ mergeErr'.path # bootloaderPath'

C7_NoOutput ==
    /\ mergeErr.kind \in {"open", "parse"} => fs = fs0
    /\ pc \in {"Run", "merge", "parseBoot", "openSketch", "parseSketch",
               "bootLoop", "sketchLoop", "create"} => fs = fs0

C7_InputFailure == [][C7_NamesInput]_vars /\ []C7_NoOutput

C7_Witness ==
    /\ pc = "done"
    /\ mergeErr = [kind |-> "parse", path |-> builtSketchPath]
    /\ mem_boot # NewMemory
    /\ mergedSketchPath \in DOMAIN fs

\* C8: Run never returns an error; an error of merge is printed as a
\* warning.
C8_RunNeverFails ==
    /\ runErr \in {"running", "nil"}
    /\ pc = "done" =>
         /\ runErr = "nil"
         /\ mergeErr # NoError =>
              /\ warnings # <<>>
              /\ warnings[Len(warnings)] =
                   [msg |-> mergeErr.kind, path |-> mergeErr.path]

C8_Witness ==
    /\ pc = "done"
    /\ mergeErr.kind = "parse"
    /\ runErr = "nil"

\* C9: when the size fits the budget and the steps before succeeded, the
\* binary is written to a file beside the merged HEX file whose name ends
\* in .bin, and the file exists afterwards.
C9_BinaryBesideHex ==
    (pc = "done" /\ dump = "complete" /\ bytes # NoBytes) =>
        /\ Parent(mergedSketchPathBin) = Parent(mergedSketchPath)
        /\ Ext(mergedSketchPathBin) = ".bin"
        /\ mergedSketchPathBin \in DOMAIN fs
        /\ fs[mergedSketchPathBin].lines = bytes

\* C10: the size budget merge is called with is 16,000,000 when
\* upload.maximum_size is absent, and twice the declared size when it is
\* present.
C10_Budget ==
    pc \notin {"Run", "done"} =>
        /\ ~ContainsKey(props, KeyUploadMaxSize) => maximumBinSize = 16000000
        /\ \A n \in UploadSizes :
             (ContainsKey(props, KeyUploadMaxSize)
              /\ props[KeyUploadMaxSize] = Itoa(n)) => maximumBinSize = 2 * n

C10_Witness ==
    /\ pc = "merge"
    /\ ContainsKey(props, KeyUploadMaxSize)
    /\ props[KeyUploadMaxSize] = <<"2">>
    /\ maximumBinSize = 4


\* The segments of the two parsed images.
InputSegments == Segments(mem_boot) \cup Segments(mem_sketch)

\* No program segment overlaps a bootloader segment, and every bootloader
\* segment holds data (a Segment's data is non-empty).
DisjointImages ==
    /\ \A b \in Segments(mem_boot) : Len(b.Data) > 0
    /\ \A b \in Segments(mem_boot), s \in Segments(mem_sketch) :
         Cover(b) \cap Cover(s) = {}

PcOrder == <<"Run", "merge", "parseBoot", "openSketch", "parseSketch",
             "bootLoop", "sketchLoop", "create", "dump", "export", "report",
             "done">>
Position(p) == CHOOSE i \in 1..Len(PcOrder) : PcOrder[i] = p

\* The handles merge opens, and the statement that opens each.
Handles == {"bootFile", "buildFile", "mergeFile"}
OpensAt(h) ==
    IF h = "bootFile" THEN "merge"
    ELSE IF h = "buildFile" THEN "openSketch" ELSE "create"

\* C12: a step that changes the open handles either opens one handle that
\* was not open, at the one statement that opens it, which is then left for
\* good (control never goes back), or is merge's return, which closes every
\* handle; before merge is called and after it has returned, on every exit
\* path, no handle is open.
C12_OpenStep ==
    open' # open =>
        \/ open' = {} /\ pc' = "report"
        \/ \E h \in Handles : /\ h \notin open
                              /\ open' = open \cup {h}
                              /\ pc = OpensAt(h)
                              /\ Position(pc') > Position(pc)
C12_Forward == Position(pc') >= Position(pc)
C12_ClosedOutside ==
    /\ open \subseteq Handles
    /\ pc \in {"Run", "merge", "report", "done"} => open = {}
C12_HandleRelease ==
    [][C12_OpenStep /\ C12_Forward]_vars /\ []C12_ClosedOutside

\* merge has returned from its last statement with a failed binary write,
\* after it had opened all three files.
C12_Witness ==
    /\ pc = "report"
    /\ mergeErr.kind = "write"
    /\ dump # "none"
    /\ mergedSketchPath \in DOMAIN fs
    /\ open = {}


\* C13: when no segment was inserted, both parsed images have no segment,
\* the loops end with initial_address = 0xFFFFFFFF and last_address = 0,
\* the size last_address - initial_address is 1, and for every maximum size
\* of at least 1 merge does not take the guard's exit but hands ToBinary's
\* one byte from address 0xFFFFFFFF to WriteFile.
C13_EmptyMergeWraps ==
    (LoopsDone /\ inserted = {}) =>
        /\ mem_boot = <<>> /\ mem_sketch = <<>>
        /\ initial_address = MaxUint32
        /\ last_address = 0
        /\ initial_address > last_address
        /\ OccupiedSize(initial_address, last_address) = 1
        /\ (GuardReached /\ maximumBinSize >= 1) =>
             /\ bytes # NoBytes
             /\ bytes = BinaryBytes(mem_merge, MaxUint32, 0)
             /\ Len(bytes) = 1


\* upload.maximum_size is present and strconv.Atoi reports an error for it.
UnparseableUploadSize ==
    /\ ContainsKey(props, KeyUploadMaxSize)
    /\ Atoi(props[KeyUploadMaxSize]).err

\* C14: when upload.maximum_size is present and is no integer, merge is
\* called with the budget 0, and every merge that reaches its size guard
\* with an occupied size greater than 0 hands nothing to WriteFile, leaves
\* no binary file, returns no error, and Run prints no warning.
C14_UnparseableBudget ==
    UnparseableUploadSize =>
        /\ pc \notin {"Run", "done"} => maximumBinSize = 0
        /\ (GuardReached
            /\ OccupiedSize(initial_address, last_address) > 0) =>
               /\ bytes = NoBytes
               /\ ~BinaryWritten
               /\ mergeErr = NoError
               /\ pc = "done" => warnings = <<>> /\ runErr = "nil"

\* Run has returned after a merge of two images with data whose budget came
\* from an unparseable upload size.
C14_Witness ==
    /\ pc = "done"
    /\ UnparseableUploadSize
    /\ GuardReached
    /\ dump = "complete"
    /\ \E x \in inserted : x.from = "boot" /\ Len(x.seg.Data) > 0
    /\ \E x \in inserted : x.from = "sketch" /\ Len(x.seg.Data) > 0
    /\ OccupiedSize(initial_address, last_address) > 1
    /\ OccupiedSize(initial_address, last_address) < DefaultMaxBinSize
    /\ bytes = NoBytes


\* Both inputs were parsed and os.Create gave the merged HEX file, and
\* merge is past DumpIntelHex: at its size guard, or returned from the
\* guard or from WriteFile.
PastDump ==
    /\ LoopsDone
    /\ pc \in {"export", "report", "done"}
    /\ mergeErr.kind \in {"nil", "write"}

\* C15: once both inputs are parsed and the merged HEX file is created,
\* DumpIntelHex has run when the size guard is evaluated: the file then
\* holds the lines of the merged image (all of them unless a write to the
\* file failed), the guard and the binary export leave the file as it is,
\* and so it holds them after merge has returned, whether the size exceeded
\* the budget or not and whether WriteFile failed or not.
C15_DumpDone ==
    PastDump =>
        /\ dump # "none"
        /\ mergedSketchPath \in DOMAIN fs
        /\ fs[mergedSketchPath].kind = "hex"
        /\ \E k \in 0..Len(DumpIntelHex(mem_merge, LineLength)) :
             fs[mergedSketchPath].lines =
                 SubSeq(DumpIntelHex(mem_merge, LineLength), 1, k)
        /\ dump = "complete" =>
             fs[mergedSketchPath].lines = DumpIntelHex(mem_merge, LineLength)
C15_GuardKeepsHex ==
    pc = "export" =>
        /\ dump # "none"
        /\ mergedSketchPath \in DOMAIN fs'
        /\ fs'[mergedSketchPath] = fs[mergedSketchPath]
        /\ mem_merge' = mem_merge
C15_HexIndependentOfBudget == [][C15_GuardKeepsHex]_vars /\ []C15_DumpDone

\* Run has returned after a merge whose size exceeded the budget: no binary
\* was asked for, and the merged HEX file holds both images' records.
C15_Witness ==
    /\ pc = "done"
    /\ PastDump
    /\ ExceedsBudget(OccupiedSize(initial_address, last_address),
                     maximumBinSize)
    /\ bytes = NoBytes
    /\ dump = "complete"
    /\ \E x \in inserted : x.from = "boot" /\ Len(x.seg.Data) > 0
    /\ \E x \in inserted : x.from = "sketch" /\ Len(x.seg.Data) > 0
    /\ Len(fs[mergedSketchPath].lines) >= 3

=============================================================================
